---- MODULE Spec2Model ----
(***************************************************************************)
(* LLMTriggerPlugin (src/main.py): a cron-driven scheduler that parses raw *)
(* trigger strings, polls them at a fixed cadence, calls a named provider  *)
(* for every due trigger and forwards the reply to a delivery channel.     *)
(*                                                                         *)
(* Time is counted in ticks of TickSeconds seconds (one poll interval)     *)
(* since an instant that lies on a whole hour.  Text is a sequence of      *)
(* characters; a run of characters that holds neither ':' nor ' ' may be   *)
(* written as one element ("provA"), which split and join treat like any   *)
(* other character.                                                        *)
(*                                                                         *)
(* The scheduler task and the command handlers are followed from one       *)
(* suspension to the next, as the event loop runs them: a handler or       *)
(* terminate() takes a step only while the task is suspended, the task     *)
(* only while no handler is in the middle of a turn.  The host clock moves *)
(* on its own.  The provider registry, the provider and the delivery       *)
(* channel answer nondeterministically (a value or an Exception); so does  *)
(* every call of the logger made by the task, the commands and terminate() *)
(* when logger_faulty is set.  The logging of the constructor and of the   *)
(* parser is taken to return.  The variables marked (history) record what  *)
(* happened; the code does not read them.                                  *)
(*                                                                         *)
(* Spec is the constructor and the scheduler task with a logger that may   *)
(* raise; SpecParse the parser alone; SpecCron the cron evaluator alone;   *)
(* SpecCmd the task interleaved with the status and test commands, and     *)
(* SpecHang the task with a provider or delivery call that may never       *)
(* return, under weak fairness of the task, both with a logger that does   *)
(* not raise.                                                              *)
(***************************************************************************)
EXTENDS Integers, Sequences, FiniteSets, TLC

\* ---------------------------------------------------------------- bounds
MaxTime == 4          \* the clock runs over 0..MaxTime ticks
MaxBatch == 2         \* raw strings per batch in the parser-only specification

\* ------------------------------------------------------------- constants
scheduler_check_interval == 30   \* seconds
TickSeconds == scheduler_check_interval
TicksPerMinute == 60 \div TickSeconds
SleepTicks == scheduler_check_interval \div TickSeconds
None == -1                       \* "last_run": None

\* ------------------------------------------------------------------ text
RECURSIVE SplitAcc(_, _, _)
SplitAcc(s, sep, cur) ==
  IF s = <<>> THEN <<cur>>
  ELSE IF Len(s) >= 2 /\ s[1] = sep /\ s[2] = sep
       THEN <<cur>> \o SplitAcc(SubSeq(s, 3, Len(s)), sep, <<>>)
       ELSE SplitAcc(Tail(s), sep, Append(cur, s[1]))

\* config_str.split("::"): the segments between the non-overlapping
\* occurrences of "::", found left to right; empty segments are kept.
SplitColons(s) == SplitAcc(s, ":", <<>>)

RECURSIVE JoinColons(_)
\* "::".join(parts)
JoinColons(parts) ==
  IF parts = <<>> THEN <<>>
  ELSE IF Len(parts) = 1 THEN parts[1]
  ELSE parts[1] \o <<":", ":">> \o JoinColons(Tail(parts))

RECURSIVE SplitSpaces(_, _)
\* expr.split(): the maximal runs of non-blank characters
SplitSpaces(s, cur) ==
  IF s = <<>> THEN (IF cur = <<>> THEN <<>> ELSE <<cur>>)
  ELSE IF s[1] = " "
       THEN (IF cur = <<>> THEN <<>> ELSE <<cur>>) \o SplitSpaces(Tail(s), <<>>)
       ELSE SplitSpaces(Tail(s), Append(cur, s[1]))

\* ------------------------------------------------------------------ cron
\* The tokens of a cron field the model knows, and the values each selects
\* in a field that ranges over lo..hi; the empty set for a number outside
\* the range (a token that selects nothing is what makes a field invalid).
FieldTokens == {"*", "*/2", "0", "1", "99"}
FieldValues(tok, lo, hi) ==
  CASE tok = "*"   -> lo..hi
    [] tok = "*/2" -> {v \in lo..hi : (v - lo) % 2 = 0}
    [] tok = "0"   -> {0} \cap (lo..hi)
    [] tok = "1"   -> {1} \cap (lo..hi)
    [] tok = "99"  -> {99} \cap (lo..hi)
    [] OTHER       -> {}

FieldLo == <<0, 0, 1, 1, 0>>
FieldHi == <<59, 23, 31, 12, 6>>

\* croniter(expr, start) accepts expr: five blank-separated fields, each one
\* known token that selects a value of its field's range.
CronValid(expr) ==
  LET f == SplitSpaces(expr, <<>>) IN
    /\ Len(f) = 5
    /\ \A k \in 1..5 :
         /\ Len(f[k]) = 1
         /\ f[k][1] \in FieldTokens
         /\ FieldValues(f[k][1], FieldLo[k], FieldHi[k]) # {}

\* The calendar fields of whole minute m.  The model's horizon stays inside
\* one day: day 1 of month 1, a Thursday (weekday 4).
MinuteOf(m) == m % 60
HourOf(m) == (m \div 60) % 24
Today == [day |-> 1, month |-> 1, weekday |-> 4]
\* Day-of-month and day-of-week: when both are restricted either may match.
DayMatches(f) ==
  LET domOk == Today.day \in FieldValues(f[3][1], FieldLo[3], FieldHi[3])
      dowOk == Today.weekday \in FieldValues(f[5][1], FieldLo[5], FieldHi[5])
  IN IF f[3][1] = "*" THEN dowOk
     ELSE IF f[5][1] = "*" THEN domOk
     ELSE domOk \/ dowOk
\* Whether whole minute m satisfies every field of f, an expression's fields.
CronMatches(f, m) ==
    /\ MinuteOf(m) \in FieldValues(f[1][1], FieldLo[1], FieldHi[1])
    /\ HourOf(m) \in FieldValues(f[2][1], FieldLo[2], FieldHi[2])
    /\ DayMatches(f)
    /\ Today.month \in FieldValues(f[4][1], FieldLo[4], FieldHi[4])

SearchMinutes == 60
FirstCandidateInclusive(ref) == ref \div TicksPerMinute
\* The first whole minute a search from reference instant ref starts at.
FirstCandidate(ref) == ref \div TicksPerMinute + 1
RECURSIVE NextMatch(_, _, _)
\* The search: minute by minute from m on, over at most left minutes.
NextMatch(f, m, left) ==
  IF left = 0 THEN CHOOSE k \in {} : TRUE
  ELSE IF CronMatches(f, m) THEN m
  ELSE NextMatch(f, m + 1, left - 1)
\* croniter(expr, ref).get_next(datetime): the earliest whole minute strictly
\* after ref that matches expr.
CronNext(expr, ref) ==
  NextMatch(SplitSpaces(expr, <<>>), FirstCandidate(ref), SearchMinutes) * TicksPerMinute

\* ---------------------------------------------------------------- state
VARIABLES
  now,              \* the host clock, datetime.now()
  config,           \* self.config: the two raw lists and the notification flags
  logger_faulty,    \* whether a call of the logger may raise (the environment)
  trigger_configs,  \* self.trigger_configs
  pc,               \* where the constructor / the scheduler task stands
  pidx,             \* raw strings _parse_configs has consumed
  idx,              \* the scan's position in trigger_configs (1-based)
  current_time,     \* the scan's current_time
  wakeAt,           \* when the pending asyncio.sleep completes
  cancel_requested, \* _scheduler_task.cancel() was called
  loop_error_seen,  \* the loop's except branch has run since the last full scan
  origins,          \* per trigger: the position of its raw string (history)
  ref,              \* per trigger: the instant next_run was computed from (history)
  completed,        \* triggers the scheduler has finished an attempt for (history)
  scan_due,         \* the triggers that were due when the scan began (history)
  checked,          \* the entries this scan has due-checked, in order (history)
  executed,         \* the entries this scan has called _execute_trigger for (history)
  failed,           \* the entries of this scan that hit a caught failure (history)
  faulted,          \* the entries of this scan whose pass a raising logger call ended
                    \* before the entry was advanced (history)
  attempt,          \* what the scan did for the entry it checked last (history)
  log_raised,       \* the logger calls, by source line, that raised in that pass
                    \* or on the way out of the scan (history)
  start_time,       \* the clock when the constructor began (history)
  cancelled_at,     \* where the task stood when it was cancelled (history)
  term,             \* where a call of terminate() stands
  tpc,              \* where a running test command stands
  tidx,             \* the test command's position in trigger_configs (1-based)
  success_count,    \* the test command's success_count
  total_count,      \* the test command's total_count
  replies,          \* per command: what it has yielded to its sender
  t_attempt,        \* what the test command did for its current entry (history)
  t_executed,       \* the entries the test command has attempted, in order (history)
  t_raised,         \* its attempts whose provider or delivery call raised (history)
  cmds,             \* commands received so far (history)
  cron_expr,        \* the evaluator alone: the expression
  cron_ref,         \* the evaluator alone: the reference instant
  cron_out          \* the evaluator alone: the instants computed so far

scanHistory == <<scan_due, checked, executed, failed, faulted, attempt,
                log_raised>>
cmdVars == <<tpc, tidx, success_count, total_count, replies, t_attempt,
             t_executed, t_raised, cmds>>
cronVars == <<cron_expr, cron_ref, cron_out>>

vars == <<now, config, logger_faulty, trigger_configs, pc, pidx, idx,
          current_time, wakeAt, cancel_requested, loop_error_seen, origins, ref,
          completed, scan_due, checked, executed, failed, faulted, attempt,
          log_raised, start_time, cancelled_at, term, cmdVars, cronVars>>

\* ---------------------------------------------------------------- inputs
Sep == <<":", ":">>
EveryMinute == <<"*", " ", "*", " ", "*", " ", "*", " ", "*">>
EveryOther == <<"*/2", " ", "*", " ", "*", " ", "*", " ", "*">>
BadMinute == <<"99", " ", "*", " ", "*", " ", "*", " ", "*">>
FourFields == <<"*", " ", "*", " ", "*", " ", "*">>

\* "p1::g1::provA::* * * * *::hello::world"
RawHelloWorld ==
  <<"p1">> \o Sep \o <<"g1">> \o Sep \o <<"provA">> \o Sep \o EveryMinute
    \o Sep \o <<"hello">> \o Sep \o <<"world">>
\* "p1::u1::provB::*/2 * * * *::hi"
RawEveryOther ==
  <<"p1">> \o Sep \o <<"u1">> \o Sep \o <<"provB">> \o Sep \o EveryOther
    \o Sep \o <<"hi">>
\* "p1::g1::provA::99 * * * *::hi"
RawBadCron ==
  <<"p1">> \o Sep \o <<"g1">> \o Sep \o <<"provA">> \o Sep \o BadMinute
    \o Sep \o <<"hi">>
\* "p1::g1::provA::* * * *::hi"
RawFourFields ==
  <<"p1">> \o Sep \o <<"g1">> \o Sep \o <<"provA">> \o Sep \o FourFields
    \o Sep \o <<"hi">>
\* "p1::g1::provA::* * * * *"
RawNoPrompt ==
  <<"p1">> \o Sep \o <<"g1">> \o Sep \o <<"provA">> \o Sep \o EveryMinute
\* "p1:::g1::provA::* * * * *::hi"
RawTripleColon ==
  <<"p1">> \o Sep \o <<":", "g1">> \o Sep \o <<"provA">> \o Sep \o EveryMinute
    \o Sep \o <<"hi">>
\* "p1::g1::provA::* * * * *::"
RawEmptyPrompt ==
  <<"p1">> \o Sep \o <<"g1">> \o Sep \o <<"provA">> \o Sep \o EveryMinute \o Sep

RawPool == {RawHelloWorld, RawEveryOther, RawBadCron, RawFourFields,
            RawNoPrompt, RawTripleColon, RawEmptyPrompt, <<>>}

SeqsUpTo(S, n) == UNION {[1..k -> S] : k \in 0..n}

\* The configurations the scheduler is run on.
GroupMaps == {<<>>, <<RawHelloWorld>>, <<RawBadCron, RawHelloWorld>>}
FriendMaps == {<<>>, <<RawEveryOther>>}
\* The batches the parser alone is run on.
Batches ==
  UNION {[1..g -> RawPool] \X SeqsUpTo(RawPool, MaxBatch - g) : g \in 0..MaxBatch}

\* ----------------------------------------------------------- ConfigParser
MessageContentFirstOnly(parts) == parts[5]
\* parts[4:] rejoined: the prompt may itself hold "::"
MessageContent(parts) == JoinColons(SubSeq(parts, 5, Len(parts)))

TriggerConfigDueAtOnce(type, parts, t1, t2) ==
  [type |-> type,
   platform |-> parts[1],
   target_id |-> parts[2],
   provider |-> parts[3],
   cron_expression |-> parts[4],
   cron |-> t2,
   next_run |-> t1,
   last_run |-> None,
   message |-> JoinColons(SubSeq(parts, 5, Len(parts)))]
\* The dict appended for an accepted raw string; t1 is the clock read for the
\* croniter that yields next_time, t2 the one for the stored croniter.
TriggerConfig(type, parts, t1, t2) ==
  [type |-> type,
   platform |-> parts[1],
   target_id |-> parts[2],
   provider |-> parts[3],
   cron_expression |-> parts[4],
   cron |-> t2,
   next_run |-> CronNext(parts[4], t1),
   last_run |-> None,
   message |-> MessageContent(parts)]

\* len(parts) >= 5 and croniter accepts parts[3]
Accepts(parts) == Len(parts) >= 5 /\ CronValid(parts[4])

\* One pass of a parsing loop's body: what it appends to trigger_configs.
ParseEntry(config_str, type, t1, t2) ==
  LET parts == SplitColons(config_str) IN
    IF Accepts(parts) THEN <<TriggerConfig(type, parts, t1, t2)>> ELSE <<>>

\* The raw strings in the order the constructor reads them.
RawInputs == config.platform_group_provider_map \o config.platform_friend_provider_map
TypeOfInput(k) ==
  IF k <= Len(config.platform_group_provider_map) THEN "group" ELSE "private"

NextInputStopsOnReject(k, taken) == IF taken THEN k + 1 ELSE Len(RawInputs)
\* The loop goes on to the next raw string whether or not this one was taken.
NextInput(k, taken) == k + 1

\* for config_str in ...: one raw string read, split, validated and, when
\* accepted, appended.  The clock may move between the body's two reads.
ParseConfigEntry ==
  /\ pc = "parse"
  /\ pidx < Len(RawInputs)
  /\ \E d \in 0..1 :
       /\ now + d <= MaxTime
       /\ LET k == pidx + 1
              got == ParseEntry(RawInputs[k], TypeOfInput(k), now, now + d)
          IN /\ trigger_configs' = trigger_configs \o got
             /\ origins' = IF got = <<>> THEN origins ELSE Append(origins, k)
             /\ ref' = IF got = <<>> THEN ref ELSE Append(ref, now)
             /\ pidx' = NextInput(pidx, got # <<>>)
       /\ now' = now + d
  /\ UNCHANGED <<config, logger_faulty, pc, idx, current_time, wakeAt,
                 cancel_requested, loop_error_seen, completed, scanHistory,
                 start_time, cancelled_at, term, cmdVars, cronVars>>

\* The host clock moves on by itself, wherever the program stands.
Tick ==
  /\ now < MaxTime
  /\ now' = now + 1
  /\ UNCHANGED <<config, logger_faulty, trigger_configs, pc, pidx, idx,
                 current_time, wakeAt, cancel_requested, loop_error_seen,
                 origins, ref, completed, scanHistory, start_time,
                 cancelled_at, term, cmdVars, cronVars>>

admin_user_id == "admin"
\* The commands a run may receive, each once: the status command, and the test
\* command from the administrator and from somebody else.
Commands ==
  {[kind |-> "status", sender |-> "u1"],
   [kind |-> "test", sender |-> admin_user_id],
   [kind |-> "test", sender |-> "u1"]}
AdminTest == [kind |-> "test", sender |-> admin_user_id]
\* One result a command yields to its sender.
Reply(kind, n, total, entries) ==
  [kind |-> kind, success |-> n, total |-> total, entries |-> entries]

Configs(groups, friends) ==
  [platform_group_provider_map : groups,
   platform_friend_provider_map : friends,
   notification_on_failure : BOOLEAN,
   notification_on_success : BOOLEAN]

InitPlugin(cfgs, starts, faulty) ==
  /\ now \in starts
  /\ config \in cfgs
  /\ logger_faulty \in faulty
  /\ trigger_configs = <<>>
  /\ pc = "parse"
  /\ pidx = 0
  /\ idx = 0
  /\ current_time = 0
  /\ wakeAt = 0
  /\ cancel_requested = FALSE
  /\ loop_error_seen = FALSE
  /\ origins = <<>>
  /\ ref = <<>>
  /\ completed = {}
  /\ scan_due = {}
  /\ checked = <<>>
  /\ executed = <<>>
  /\ failed = {}
  /\ faulted = {}
  /\ attempt = <<>>
  /\ log_raised = {}
  /\ start_time = now
  /\ cancelled_at = "none"
  /\ term = "none"
  /\ tpc = "idle"
  /\ tidx = None
  /\ success_count = None
  /\ total_count = None
  /\ replies = [c \in Commands |-> <<>>]
  /\ t_attempt = <<>>
  /\ t_executed = <<>>
  /\ t_raised = 0
  /\ cmds = {}

\* No evaluation outside the plugin is under way.
CronIdle == cron_expr = <<>> /\ cron_ref = 0 /\ cron_out = <<>>
InitWith(cfgs, starts, faulty) == InitPlugin(cfgs, starts, faulty) /\ CronIdle

\* The parser alone, over every batch of the larger pool.
InitParse ==
  InitWith({[platform_group_provider_map |-> b[1],
             platform_friend_provider_map |-> b[2],
             notification_on_failure |-> TRUE,
             notification_on_success |-> FALSE] : b \in Batches},
           {0}, {FALSE})
NextParse == ParseConfigEntry \/ Tick
SpecParse == InitParse /\ [][NextParse]_vars

\* The evaluator alone: croniter(expr, R).get_next(), then again from its own
\* result, as the scan does at each advance.
MaxRef == 8
MaxCalls == 2
CronExprs ==
  {<<mi, " ", "*", " ", d, " ", mo, " ", "*">> :
     mi \in {"*", "*/2", "0", "1"}, d \in {"*", "1"}, mo \in {"*", "1"}}
InitCron ==
  /\ InitPlugin({[platform_group_provider_map |-> <<>>,
                  platform_friend_provider_map |-> <<>>,
                  notification_on_failure |-> TRUE,
                  notification_on_success |-> FALSE]}, {0}, {FALSE})
  /\ cron_expr \in {e \in CronExprs : CronValid(e)}
  /\ cron_ref \in 0..MaxRef
  /\ cron_out = <<>>
CronGetNext ==
  /\ Len(cron_out) < MaxCalls
  /\ cron_out' = Append(cron_out,
                        CronNext(cron_expr, IF cron_out = <<>> THEN cron_ref
                                            ELSE cron_out[Len(cron_out)]))
  /\ UNCHANGED <<now, config, logger_faulty, trigger_configs, pc, pidx, idx,
                 current_time, wakeAt, cancel_requested, loop_error_seen,
                 origins, ref, completed, scanHistory, start_time, cancelled_at,
                 term, cmdVars, cron_expr, cron_ref>>
NextCron == CronGetNext
SpecCron == InitCron /\ [][NextCron]_vars

\* ------------------------------------------------------------- the record
\* One entry of the history of an attempt.
Ev(e, i) == [ev |-> e, idx |-> i, addr |-> <<>>, payload |-> <<>>]
Delivery(i, a, p) == [ev |-> "send", idx |-> i, addr |-> a, payload |-> p]
ProviderOk(i, p) == [ev |-> "provider_ok", idx |-> i, addr |-> <<>>, payload |-> p]
HasEv(e) == \E n \in 1..Len(attempt) : attempt[n].ev = e
CountOf(seq, i) == Cardinality({n \in 1..Len(seq) : seq[n] = i})

\* --------------------------------------------------------- collaborators
\* context.get_provider_by_id(name): a provider, None, or an exception.
Resolutions == {"found", "missing", "raises"}
\* What text_chat may return: None, or a response with its result_chain.
NoResponse == [absent |-> TRUE, result_chain |-> <<>>]
Response(chain) == [absent |-> FALSE, result_chain |-> chain]
Responses(c) == {NoResponse, Response(<<>>), Response(<<"re">> \o c.message)}

\* ----------------------------------------------------- NotificationSink
\* _send_notification(message, level): the call, and the failure it swallows.
send_notification(i, level, outcome) ==
  <<Ev(level, i)>> \o (IF outcome = "raises" THEN <<Ev("notice_error", i)>> ELSE <<>>)

\* -------------------------------------------------------- SchedulerLoop
\* The awaits of the task; "hung" is the await of a provider or delivery call
\* that will never return.
AwaitPoints == {"sleep", "error_sleep", "await_provider", "await_send", "hung"}

\* A command handler and the task share one event loop: the task takes a turn
\* only while no handler is between two of its own suspensions.
CommandSuspended == tpc # "t_loop"

\* What the scheduler task's steps leave alone.
outsideTask == <<now, config, logger_faulty, start_time, pidx, origins,
                 cancel_requested, term, cmdVars, cronVars>>

\* self._scheduler_task = asyncio.create_task(self._scheduler_loop()): the task
\* is created and the constructor ends; the loop's body has not begun.
StartScheduler ==
  /\ pc = "parse"
  /\ pidx = Len(RawInputs)
  /\ pc' = "created"
  /\ UNCHANGED <<trigger_configs, ref, completed, idx, current_time, wakeAt,
                 loop_error_seen, scanHistory, cancelled_at, outsideTask>>

\* The event loop gives the task its first turn: while True, try, and the
\* first asyncio.sleep, counted from this instant.
TaskBegins ==
  /\ pc = "created"
  /\ CommandSuspended
  /\ ~cancel_requested
  /\ pc' = "sleep"
  /\ wakeAt' = now + SleepTicks
  /\ UNCHANGED <<trigger_configs, ref, completed, idx, current_time,
                 loop_error_seen, scanHistory, cancelled_at, outsideTask>>

IsDueStrict(t, c) == t > c.next_run
\* current_time >= config["next_run"]
IsDue(t, c) == t >= c.next_run

\* The sleep ends and _check_and_execute_triggers reads current_time.
Wake ==
  /\ pc = "sleep"
  /\ CommandSuspended
  /\ ~cancel_requested
  /\ now >= wakeAt
  /\ pc' = "scan"
  /\ current_time' = now
  /\ idx' = 1
  /\ scan_due' = {i \in 1..Len(trigger_configs) : trigger_configs[i].next_run <= now}
  /\ checked' = <<>>
  /\ executed' = <<>>
  /\ failed' = {}
  /\ faulted' = {}
  /\ attempt' = <<>>
  /\ log_raised' = {}
  /\ UNCHANGED <<trigger_configs, ref, completed, wakeAt, loop_error_seen,
                 cancelled_at, outsideTask>>

\* A call of the logger: it returns, or (a faulty logger) raises an Exception.
LogOutcomes == IF logger_faulty THEN {"ok", "raises"} ELSE {"ok"}

LoopErrorTargetBreaks == "terminated"
\* Where the loop goes when its body raises an Exception: it logs and sleeps.
LoopErrorTarget == "error_sleep"

AdvancedFromSchedule(c, t) ==
  [c EXCEPT !.last_run = t, !.cron = c.next_run,
            !.next_run = CronNext(c.cron_expression, c.next_run)]
AdvancedKeepsNextRun(c, t) == [c EXCEPT !.last_run = t, !.cron = t]
\* config["last_run"], config["cron"], config["next_run"] after an attempt
Advanced(c, t) ==
  [c EXCEPT !.last_run = t, !.cron = t, !.next_run = CronNext(c.cron_expression, t)]

\* The scan's history as it stands, and with the current entry marked as
\* failed (an exception was caught in its pass) or as faulted (its pass was
\* ended by a raising logger call before the entry was advanced).
History == [checked |-> checked, executed |-> executed, failed |-> failed,
            faulted |-> faulted, raised |-> log_raised]
Failed(h) == [h EXCEPT !.failed = @ \cup {idx}]
Faulted(h) == [h EXCEPT !.faulted = @ \cup {idx}]
\* ... and with the logger call of a source line marked as having raised.
Raised(h, line) == [h EXCEPT !.raised = @ \cup {line}]
Keep(h) ==
  /\ checked' = h.checked
  /\ executed' = h.executed
  /\ failed' = h.failed
  /\ faulted' = h.faulted
  /\ log_raised' = h.raised

\* The current entry at the end of its pass: advanced by the three
\* assignments after _execute_trigger's return, or left as it was.
Commit(adv) ==
  IF adv
  THEN /\ trigger_configs' = [trigger_configs EXCEPT ![idx] = Advanced(@, current_time)]
       /\ ref' = [ref EXCEPT ![idx] = current_time]
       /\ completed' = completed \cup {idx}
  ELSE UNCHANGED <<trigger_configs, ref, completed>>

NextEntrySkipsOne(i, caught) == i + 2
NextEntryStopsOnFailure(i, caught) ==
  IF caught THEN Len(trigger_configs) + 1 ELSE i + 1
\* The for loop goes on to the next entry, whatever happened in this one.
NextEntry(i, caught) == i + 1

\* The pass ends and the for loop goes on.
GoOn(adv, lg, h) ==
  /\ Commit(adv)
  /\ pc' = "scan"
  /\ idx' = NextEntry(idx, idx \in h.failed)
  /\ attempt' = lg
  /\ Keep(h)
  /\ UNCHANGED <<current_time, wakeAt, loop_error_seen, scan_due>>

\* except Exception in _scheduler_loop: an exception has left the scan.  The
\* branch logs it and sleeps; when that logging raises too, the exception
\* leaves the loop and the task ends with it.  The scan's locals and its
\* history end here.
LoopError(adv, h) ==
  /\ Commit(adv)
  /\ \E o \in LogOutcomes :
       /\ pc' = IF o = "ok" THEN LoopErrorTarget ELSE "crashed"
       /\ wakeAt' = IF o = "ok" THEN now + SleepTicks ELSE 0
       /\ log_raised' = IF o = "ok" THEN h.raised ELSE h.raised \cup {142}
  /\ loop_error_seen' = TRUE
  /\ idx' = 0
  /\ current_time' = 0
  /\ scan_due' = {}
  /\ checked' = <<>>
  /\ executed' = <<>>
  /\ failed' = {}
  /\ faulted' = {}
  /\ attempt' = <<>>

\* The failure notice of the scan's except branch; an exception that leaves
\* _send_notification there leaves the scan.
NotifyFailure(adv, lg, h) ==
  \E o \in LogOutcomes :
    IF o = "ok" THEN GoOn(adv, lg \o send_notification(idx, "error", "logged"), h)
    ELSE \E o2 \in LogOutcomes :
           IF o2 = "ok"
           THEN GoOn(adv, lg \o send_notification(idx, "error", "raises"),
                     Raised(h, 215))
           ELSE LoopError(adv, Raised(Raised(h, 215), 223))

\* except Exception in the scan's for loop: the error is logged and, when
\* enabled, the failure notice goes out; then the loop goes on.
ScanExcept(adv, lg, h) ==
  \E o \in LogOutcomes :
    IF o = "raises" THEN LoopError(adv, Raised(h, 169))
    ELSE IF config.notification_on_failure
         THEN NotifyFailure(adv, Append(lg, Ev("scan_except", idx)), Failed(h))
         ELSE GoOn(adv, Append(lg, Ev("scan_except", idx)), Failed(h))

\* The success notice, sent inside the pass's try once the entry is advanced.
NotifySuccess(lg, h) ==
  \E o \in LogOutcomes :
    IF o = "ok" THEN GoOn(TRUE, lg \o send_notification(idx, "success", "logged"), h)
    ELSE \E o2 \in LogOutcomes :
           IF o2 = "ok"
           THEN GoOn(TRUE, lg \o send_notification(idx, "success", "raises"),
                     Raised(Failed(h), 215))
           ELSE ScanExcept(TRUE, Append(lg, Ev("success", idx)),
                           Raised(Raised(Failed(h), 215), 223))

ReturnedSuspendsMidUpdate(lg, caught, h) ==
  /\ trigger_configs' = [trigger_configs EXCEPT ![idx].last_run = current_time]
  /\ attempt' = lg
  /\ pc' = "await_send"
  /\ Keep(h)
  /\ UNCHANGED <<ref, completed, idx, current_time, wakeAt, loop_error_seen, scan_due>>
\* _execute_trigger has returned to the scan: the entry is advanced, the
\* advance is logged, the success notice goes out when enabled, and the scan
\* moves to the next entry.  lg is the attempt so far, caught whether an
\* exception was caught in it, h the scan's history.
Returned(lg, caught, h) ==
  LET h1 == IF caught THEN Failed(h) ELSE h
      lg1 == Append(lg, Ev("advance", idx))
  IN \E o \in LogOutcomes :
       IF o = "raises"
       THEN ScanExcept(TRUE, lg1, Raised(h1, 163))
       ELSE IF config.notification_on_success THEN NotifySuccess(lg1, h1)
            ELSE GoOn(TRUE, lg1, h1)

\* except Exception in _execute_trigger: logged, and the call returns; when
\* that logging raises, the exception leaves _execute_trigger.
OnExecuteError(lg, h) ==
  \E o \in LogOutcomes :
    IF o = "ok" THEN Returned(lg, TRUE, h)
    ELSE ScanExcept(FALSE, lg, Raised(Faulted(Failed(h)), 209))

\* _execute_trigger logs what it found, with the logger call of source line
\* line, and returns.
LoggedReturn(line, lg, h) ==
  \E o \in LogOutcomes :
    IF o = "ok" THEN Returned(lg, FALSE, h)
    ELSE OnExecuteError(lg, Raised(h, line))

\* The task suspends at an await inside _execute_trigger.
Suspend(at, lg, h) ==
  /\ pc' = at
  /\ attempt' = lg
  /\ Keep(h)
  /\ UNCHANGED <<trigger_configs, ref, completed, idx, current_time, wakeAt,
                 loop_error_seen, scan_due>>

unified_msg_origin_group(c) == c.platform \o <<":", "group_message", ":">> \o c.target_id
\* f"{platform_name}:group_message:{target_id}" or ...:private_message:...
unified_msg_origin(c) ==
  c.platform \o <<":", (IF c.type = "group" THEN "group_message" ELSE "private_message"), ":">>
    \o c.target_id

HasResultIgnoresChain(resp) == ~resp.absent
\* llm_response and llm_response.result_chain
HasResult(resp) == ~resp.absent /\ resp.result_chain # <<>>

\* _execute_trigger up to its first await: the provider is looked up and, when
\* found, text_chat is called.
execute_trigger(lg, h) ==
  \E r \in Resolutions :
    CASE r = "found" -> Suspend("await_provider", Append(lg, Ev("provider_call", idx)), h)
      [] r = "missing" -> LoggedReturn(191, Append(lg, Ev("resolve_miss", idx)), h)
      [] r = "raises" -> OnExecuteError(Append(lg, Ev("exec_error", idx)), h)

\* One pass of the scan's for loop: the due-check and, for a due entry, the
\* log line and the call of _execute_trigger.  When the log line raises, the
\* pass's except branch runs and _execute_trigger is not called.
CheckEntry ==
  /\ pc = "scan"
  /\ idx <= Len(trigger_configs)
  /\ LET h == [History EXCEPT !.checked = Append(@, idx), !.raised = {}] IN
       IF IsDue(current_time, trigger_configs[idx])
       THEN \E o \in LogOutcomes :
              IF o = "ok"
              THEN execute_trigger(<<Ev("exec", idx)>>,
                                   [h EXCEPT !.executed = Append(@, idx)])
              ELSE ScanExcept(FALSE, <<Ev("exec", idx)>>, Raised(Faulted(h), 153))
       ELSE /\ idx' = idx + 1
            /\ attempt' = <<>>
            /\ Keep(h)
            /\ UNCHANGED <<pc, trigger_configs, ref, completed, current_time,
                           wakeAt, loop_error_seen, scan_due>>
  /\ UNCHANGED <<cancelled_at, outsideTask>>

\* text_chat returns: a non-empty result is sent on, anything else is logged.
ProviderReturns ==
  /\ pc = "await_provider"
  /\ CommandSuspended
  /\ ~cancel_requested
  /\ \E resp \in Responses(trigger_configs[idx]) :
       IF HasResult(resp)
       THEN Suspend("await_send",
                    Append(Append(attempt, ProviderOk(idx, resp.result_chain)),
                           Delivery(idx, unified_msg_origin(trigger_configs[idx]),
                                    resp.result_chain)),
                    History)
       ELSE LoggedReturn(206, Append(attempt, Ev("provider_empty", idx)), History)
  /\ UNCHANGED <<cancelled_at, outsideTask>>

\* text_chat raises.
ProviderRaises ==
  /\ pc = "await_provider"
  /\ CommandSuspended
  /\ ~cancel_requested
  /\ OnExecuteError(Append(attempt, Ev("provider_error", idx)), History)
  /\ UNCHANGED <<cancelled_at, outsideTask>>

\* send_message returns.
SendReturns ==
  /\ pc = "await_send"
  /\ CommandSuspended
  /\ ~cancel_requested
  /\ LoggedReturn(204, Append(attempt, Ev("sent", idx)), History)
  /\ UNCHANGED <<cancelled_at, outsideTask>>

\* send_message raises.
SendRaises ==
  /\ pc = "await_send"
  /\ CommandSuspended
  /\ ~cancel_requested
  /\ OnExecuteError(Append(attempt, Ev("send_error", idx)), History)
  /\ UNCHANGED <<cancelled_at, outsideTask>>

\* The sleep of the except branch ends; the loop starts over with its sleep.
ErrorSleepDone ==
  /\ pc = "error_sleep"
  /\ CommandSuspended
  /\ ~cancel_requested
  /\ now >= wakeAt
  /\ pc' = "sleep"
  /\ wakeAt' = now + SleepTicks
  /\ UNCHANGED <<trigger_configs, ref, completed, idx, current_time,
                 loop_error_seen, scanHistory, cancelled_at, outsideTask>>

\* Every entry has been checked: the scan returns and the loop sleeps again.
ScanDone ==
  /\ pc = "scan"
  /\ idx > Len(trigger_configs)
  /\ pc' = "sleep"
  /\ wakeAt' = now + SleepTicks
  /\ idx' = 0
  /\ current_time' = 0
  /\ scan_due' = {}
  /\ checked' = <<>>
  /\ executed' = <<>>
  /\ failed' = {}
  /\ faulted' = {}
  /\ attempt' = <<>>
  /\ log_raised' = {}
  /\ loop_error_seen' = FALSE
  /\ UNCHANGED <<trigger_configs, ref, completed, cancelled_at, outsideTask>>

CancelTargetSwallowed(at) ==
  IF at \in {"await_provider", "await_send"} THEN "scan" ELSE "terminated"
\* Where a CancelledError thrown into the task at an await leads: it is no
\* Exception, so it passes the handlers of _execute_trigger and of the scan and
\* ends the loop (break, or out of the retry sleep).
CancelTarget(at) == "terminated"

\* terminate() up to its await: a task that has not ended is asked to cancel
\* and terminate() waits for it; a task that has ended is left alone and
\* terminate() logs and returns.
Terminate ==
  /\ term = "none"
  /\ CommandSuspended
  /\ pc \in AwaitPoints \cup {"created", "crashed"}
  /\ IF pc = "crashed"
     THEN /\ \E o1, o2 \in LogOutcomes :
               term' = IF o1 = "ok" \/ o2 = "ok" THEN "returned" ELSE "raised"
          /\ UNCHANGED cancel_requested
     ELSE /\ cancel_requested' = TRUE
          /\ term' = "waiting"
  /\ UNCHANGED <<now, config, logger_faulty, trigger_configs, pc, pidx, idx,
                 current_time, wakeAt, loop_error_seen, origins, ref, completed,
                 scanHistory, start_time, cancelled_at, cmdVars, cronVars>>

\* The task's next turn after cancel(): the CancelledError is thrown into it
\* where it is suspended (a task that never began ends without running) and
\* the task ends.  The scan's locals and its history end with it.
TaskCancelled ==
  /\ cancel_requested
  /\ CommandSuspended
  /\ pc \in AwaitPoints \cup {"created"}
  /\ cancelled_at' = pc
  /\ pc' = CancelTarget(pc)
  /\ idx' = 0
  /\ current_time' = 0
  /\ wakeAt' = 0
  /\ scan_due' = {}
  /\ checked' = <<>>
  /\ executed' = <<>>
  /\ failed' = {}
  /\ faulted' = {}
  /\ attempt' = <<>>
  /\ log_raised' = {}
  /\ UNCHANGED <<trigger_configs, ref, completed, loop_error_seen, outsideTask>>

\* await self._scheduler_task completes once the task has ended; terminate()
\* passes the CancelledError, logs and returns.
TerminateReturns ==
  /\ term = "waiting"
  /\ CommandSuspended
  /\ pc = "terminated"
  /\ \E o1, o2 \in LogOutcomes :
       term' = IF o1 = "ok" \/ o2 = "ok" THEN "returned" ELSE "raised"
  /\ UNCHANGED <<now, config, logger_faulty, trigger_configs, pc, pidx, idx,
                 current_time, wakeAt, cancel_requested, loop_error_seen,
                 origins, ref, completed, scanHistory, start_time,
                 cancelled_at, cmdVars, cronVars>>

\* The steps of the constructor and of the task that a logger which never
\* raises leaves possible.
NextReliable ==
  \/ ParseConfigEntry
  \/ StartScheduler
  \/ TaskBegins
  \/ Tick
  \/ Wake
  \/ CheckEntry
  \/ ProviderReturns
  \/ ProviderRaises
  \/ SendReturns
  \/ SendRaises
  \/ ScanDone
  \/ Terminate
  \/ TaskCancelled
  \/ TerminateReturns

\* The instant at which the process starts: on a minute (the clock may pass
\* any number of ticks before and between the parser's reads).
Starts == {0}

Init == InitWith(Configs(GroupMaps, FriendMaps), Starts, {TRUE})

Next ==
  \/ NextReliable
  \/ ErrorSleepDone

Spec == Init /\ [][Next]_vars

\* ------------------------------------------------------------- commands
\* A command handler runs on the same event loop as the task, so it takes its
\* steps while the task is suspended at an await, has not begun or has ended.
TaskSuspended == pc \in AwaitPoints \cup {"created", "terminated", "crashed"}

\* What the commands' steps leave alone.
outsideCommands == <<now, config, logger_faulty, pc, pidx, idx, current_time,
                     wakeAt, cancel_requested, loop_error_seen, origins, ref,
                     completed, scanHistory, start_time, cancelled_at, term,
                     cronVars>>

\* /llm_trigger: the triggers and their next_run, formatted into one reply.
StatusCommand ==
  /\ TaskSuspended
  /\ CommandSuspended
  /\ \E c \in Commands \ cmds :
       /\ c.kind = "status"
       /\ cmds' = cmds \cup {c}
       /\ replies' =
            [replies EXCEPT ![c] =
               <<Reply("status", 0, 0,
                       [i \in 1..Len(trigger_configs) |->
                          [platform |-> trigger_configs[i].platform,
                           target_id |-> trigger_configs[i].target_id,
                           cron_expression |-> trigger_configs[i].cron_expression,
                           next_run |-> trigger_configs[i].next_run]])>>]
  /\ UNCHANGED <<trigger_configs, tpc, tidx, success_count, total_count,
                 t_attempt, t_executed, t_raised, outsideCommands>>

\* /test_trigger up to its first yield: refused unless the sender is the
\* administrator; otherwise the start notice is yielded and the handler is
\* suspended there, its counters not yet assigned.
TestCommand ==
  /\ TaskSuspended
  /\ CommandSuspended
  /\ \E c \in Commands \ cmds :
       /\ c.kind = "test"
       /\ cmds' = cmds \cup {c}
       /\ IF c.sender # admin_user_id
          THEN /\ replies' = [replies EXCEPT ![c] = <<Reply("refused", 0, 0, <<>>)>>]
               /\ UNCHANGED tpc
          ELSE /\ replies' = [replies EXCEPT ![c] = <<Reply("started", 0, 0, <<>>)>>]
               /\ tpc' = "t_started"
  /\ UNCHANGED <<trigger_configs, tidx, success_count, total_count, t_attempt,
                 t_executed, t_raised, outsideCommands>>

\* The handler is resumed after the start notice: success_count = 0,
\* total_count = len(self.trigger_configs), and the for loop begins.
TestBegins ==
  /\ TaskSuspended
  /\ tpc = "t_started"
  /\ tpc' = "t_loop"
  /\ success_count' = 0
  /\ total_count' = Len(trigger_configs)
  /\ tidx' = 1
  /\ UNCHANGED <<trigger_configs, replies, t_attempt, t_executed, t_raised,
                 cmds, outsideCommands>>

AfterTestAdvances(cfgs, i) == [cfgs EXCEPT ![i] = Advanced(@, now)]
\* What the test command leaves of trigger_configs once its call of
\* _execute_trigger for entry i is over: the list as it was.
AfterTest(cfgs, i) == cfgs

\* The pass of the test command's loop ends and the loop goes on; counted
\* tells whether success_count += 1 ran, raised whether the provider call or
\* the delivery call raised inside the attempt, whose record ends here.
TestGoOn(counted, raised) ==
  /\ success_count' = IF counted THEN success_count + 1 ELSE success_count
  /\ t_raised' = IF raised THEN t_raised + 1 ELSE t_raised
  /\ t_attempt' = <<>>
  /\ trigger_configs' = AfterTest(trigger_configs, tidx)
  /\ tidx' = tidx + 1
  /\ tpc' = "t_loop"

\* except Exception in the test command's loop: the error is logged and the
\* loop goes on; when that logging raises, the exception leaves the handler.
TestExcept(raised) ==
  \E o \in LogOutcomes :
    IF o = "ok" THEN TestGoOn(FALSE, raised)
    ELSE /\ tpc' = "t_crashed"
         /\ t_raised' = IF raised THEN t_raised + 1 ELSE t_raised
         /\ UNCHANGED <<success_count, t_attempt, trigger_configs, tidx>>

\* _execute_trigger has returned to the test command: success_count += 1.
TestReturned(raised) == TestGoOn(TRUE, raised)

\* except Exception in _execute_trigger, called by the test command.
TestOnExecuteError(raised) ==
  \E o \in LogOutcomes :
    IF o = "ok" THEN TestReturned(raised) ELSE TestExcept(raised)

\* _execute_trigger, called by the test command, logs what it found and returns.
TestLoggedReturn ==
  \E o \in LogOutcomes :
    IF o = "ok" THEN TestReturned(FALSE) ELSE TestOnExecuteError(FALSE)

\* One pass of the test command's for loop up to the first await of
\* _execute_trigger.
TestEntry ==
  /\ TaskSuspended
  /\ tpc = "t_loop"
  /\ tidx <= Len(trigger_configs)
  /\ t_executed' = Append(t_executed, tidx)
  /\ \E r \in Resolutions :
       CASE r = "found" ->
              /\ tpc' = "t_await_provider"
              /\ t_attempt' = <<Ev("exec", tidx), Ev("provider_call", tidx)>>
              /\ UNCHANGED <<tidx, success_count, t_raised, trigger_configs>>
         [] r = "missing" -> TestLoggedReturn
         [] r = "raises" -> TestOnExecuteError(FALSE)
  /\ UNCHANGED <<total_count, replies, cmds, outsideCommands>>

\* text_chat returns to the test command.
TestProviderReturns ==
  /\ TaskSuspended
  /\ tpc = "t_await_provider"
  /\ \E resp \in Responses(trigger_configs[tidx]) :
       IF HasResult(resp)
       THEN /\ tpc' = "t_await_send"
            /\ t_attempt' = Append(Append(t_attempt, ProviderOk(tidx, resp.result_chain)),
                                   Delivery(tidx, unified_msg_origin(trigger_configs[tidx]),
                                            resp.result_chain))
            /\ UNCHANGED <<tidx, success_count, t_raised, trigger_configs>>
       ELSE TestLoggedReturn
  /\ UNCHANGED <<total_count, replies, cmds, t_executed, outsideCommands>>

\* text_chat raises: caught inside _execute_trigger.
TestProviderRaises ==
  /\ TaskSuspended
  /\ tpc = "t_await_provider"
  /\ TestOnExecuteError(TRUE)
  /\ UNCHANGED <<total_count, replies, cmds, t_executed, outsideCommands>>

\* send_message returns to the test command.
TestSendReturns ==
  /\ TaskSuspended
  /\ tpc = "t_await_send"
  /\ TestLoggedReturn
  /\ UNCHANGED <<total_count, replies, cmds, t_executed, outsideCommands>>

\* send_message raises: caught inside _execute_trigger as well.
TestSendRaises ==
  /\ TaskSuspended
  /\ tpc = "t_await_send"
  /\ TestOnExecuteError(TRUE)
  /\ UNCHANGED <<total_count, replies, cmds, t_executed, outsideCommands>>

\* The loop is over: the counts are yielded.
TestDone ==
  /\ TaskSuspended
  /\ tpc = "t_loop"
  /\ tidx > Len(trigger_configs)
  /\ tpc' = "t_done"
  /\ replies' = [replies EXCEPT ![AdminTest] =
                   Append(@, Reply("result", success_count, total_count, <<>>))]
  /\ UNCHANGED <<trigger_configs, t_attempt, tidx, success_count, total_count,
                 t_executed, t_raised, cmds, outsideCommands>>

\* The plugin with its commands, for two triggers that fall due together.
InitCmd ==
  InitWith({[platform_group_provider_map |-> <<RawHelloWorld>>,
             platform_friend_provider_map |-> <<RawEveryOther>>,
             notification_on_failure |-> TRUE,
             notification_on_success |-> FALSE]}, {0}, {FALSE})
NextCmd ==
  \/ NextReliable
  \/ StatusCommand
  \/ TestCommand
  \/ TestBegins
  \/ TestEntry
  \/ TestProviderReturns
  \/ TestProviderRaises
  \/ TestSendReturns
  \/ TestSendRaises
  \/ TestDone
SpecCmd == InitCmd /\ [][NextCmd]_vars

\* The scheduler with a collaborator that may hang: text_chat or send_message
\* is awaited without a timeout, so a call that never returns leaves the task
\* at that await until it is cancelled.
CallHangs ==
  /\ pc \in {"await_provider", "await_send"}
  /\ CommandSuspended
  /\ ~cancel_requested
  /\ pc' = "hung"
  /\ UNCHANGED <<trigger_configs, ref, completed, idx, current_time, wakeAt,
                 loop_error_seen, scanHistory, cancelled_at, outsideTask>>
NextHang == NextReliable \/ CallHangs
\* The steps of the task.  The event loop runs the task whenever it is ready,
\* a sleep ends when its time has come, and a call that does not hang returns
\* or raises; nothing obliges anybody to call terminate().
SchedulerStep ==
  \/ TaskBegins
  \/ Wake
  \/ CheckEntry
  \/ ProviderReturns
  \/ ProviderRaises
  \/ SendReturns
  \/ SendRaises
  \/ ScanDone
  \/ TaskCancelled
\* Two triggers that fall due together, the process starting on a minute.
InitHang ==
  InitWith({[platform_group_provider_map |-> <<RawHelloWorld>>,
             platform_friend_provider_map |-> <<RawEveryOther>>,
             notification_on_failure |-> TRUE,
             notification_on_success |-> FALSE]}, {0}, {FALSE})
SpecHang ==
  InitHang /\ [][NextHang]_vars /\ WF_vars(SchedulerStep) /\ WF_vars(Tick)

\* ================================================================ claims
Scanning == {"scan", "await_provider", "await_send"}
Triggers == 1..Len(trigger_configs)
\* The positions a trigger can take with the lists of GroupMaps and FriendMaps.
Slots == {1, 2}
\* In the pass on record no call of the logger has raised, but for the one
\* in _send_notification whose exception that function handles itself.
NoLogFault == log_raised \subseteq {215}

\* C1: a trigger whose next_run is at or before the scan's current_time is
\* executed by that scan exactly once and then has a next_run strictly after
\* current_time; no entry is executed twice in a scan, and a trigger whose
\* next_run is after current_time is not executed.  (An entry whose pass a
\* raising logger call ended before the advance is left as it was and stays
\* due; the logger is no part of the claim.)
C1_DueExecutedOnce ==
  pc \in Scanning =>
    \A i \in Triggers :
      /\ CountOf(executed, i) <= 1
      /\ i \notin scan_due => CountOf(executed, i) = 0
      /\ i \in faulted => trigger_configs[i].next_run <= current_time
      /\ (i \in scan_due /\ i < idx /\ i \notin faulted) =>
           /\ CountOf(executed, i) = 1
           /\ trigger_configs[i].next_run > current_time
\* A finished scan that executed a due entry and passed over one that was not due.
C1_Witness ==
  /\ pc = "scan"
  /\ idx > Len(trigger_configs)
  /\ faulted = {}
  /\ \E i \in scan_due : CountOf(executed, i) = 1
  /\ \E j \in Triggers : j \notin scan_due /\ CountOf(checked, j) = 1

\* C2: a caught failure (provider, delivery or notification) for one entry
\* never leaves the scan, and the scan still due-checks every entry: when it
\* reaches the end of the list each entry has been checked exactly once.  An
\* exception leaves the scan only when the logger raises in the scan's own
\* except branch or in the except branch of _send_notification called there.
C2_FailureIsolation ==
  /\ failed # {} => pc \in Scanning
  /\ pc \in {"error_sleep", "crashed"} => log_raised \cap {169, 223} # {}
  /\ pc = "scan" => \A i \in failed : i < idx
  /\ (pc = "scan" /\ idx > Len(trigger_configs)) =>
        \A j \in Triggers : CountOf(checked, j) = 1
\* The first entry failed and the scan went on to check and execute the second.
C2_Witness ==
  /\ pc = "scan"
  /\ idx > Len(trigger_configs)
  /\ 1 \in failed
  /\ faulted = {}
  /\ CountOf(checked, 2) = 1
  /\ CountOf(executed, 2) = 1

\* C3: when the provider call or the delivery call of a due trigger raises, a
\* failure notice is sent if and only if notification_on_failure is set.
C3_FailureNoticeIffEnabled ==
  (pc = "scan" /\ NoLogFault /\ (HasEv("provider_error") \/ HasEv("send_error"))) =>
     (HasEv("error") <=> config.notification_on_failure)

\* C4: once the attempt for a fired trigger has returned, whatever its
\* outcome, last_run is the scan's current_time and next_run is the cron's
\* next match from current_time; last_run is unset until the scheduler has
\* finished a first attempt for the trigger.  (An attempt has returned when
\* _execute_trigger has: not when the logger raised in its except branch.)
C4_AdvanceFromScanInstant ==
  /\ \A i \in Triggers : i \notin completed => trigger_configs[i].last_run = None
  /\ pc \in Scanning =>
       \A i \in Triggers :
         (CountOf(executed, i) >= 1 /\ i < idx /\ i \notin faulted) =>
            /\ trigger_configs[i].last_run = current_time
            /\ trigger_configs[i].next_run =
                 CronNext(trigger_configs[i].cron_expression, current_time)
\* A late scan, off the minute, whose attempt failed in delivery and was
\* advanced all the same, while another trigger has never run.
C4_Witness ==
  /\ pc = "scan"
  /\ current_time % TicksPerMinute # 0
  /\ HasEv("send_error")
  /\ \E i \in Triggers :
       /\ i < idx
       /\ CountOf(executed, i) = 1
       /\ trigger_configs[i].last_run = current_time
  /\ \E j \in Triggers : trigger_configs[j].last_run = None

\* C5: every trigger's next_run is strictly after the instant it was last
\* computed from and is the cron's next match from that instant; a set
\* last_run is before next_run.
C5_NextRunInvariant ==
  \A i \in Triggers :
    /\ trigger_configs[i].next_run > ref[i]
    /\ trigger_configs[i].next_run = CronNext(trigger_configs[i].cron_expression, ref[i])
    /\ trigger_configs[i].last_run # None =>
         trigger_configs[i].last_run < trigger_configs[i].next_run
\* One trigger advanced by a scan beside one still as parsed.
C5_Witness ==
  /\ \E i \in Triggers :
       trigger_configs[i].last_run # None /\ ref[i] = trigger_configs[i].last_run
  /\ \E j \in Triggers : trigger_configs[j].last_run = None /\ ref[j] = 0

\* Whether a raw string has at least five segments and a valid cron field.
WellFormed(raw) ==
  LET parts == SplitColons(raw) IN Len(parts) >= 5 /\ CronValid(parts[4])

\* C6: of the raw strings read so far, exactly the well-formed ones have an
\* entry, one each, in input order (group list first), tagged with the list
\* they came from; a rejected string changes nothing for those after it.
C6_EveryStringParsedAlone ==
  LET taken == {k \in 1..pidx : WellFormed(RawInputs[k])} IN
    /\ Len(trigger_configs) = Cardinality(taken)
    /\ Len(origins) = Len(trigger_configs)
    /\ \A n \in 1..Len(origins) :
         /\ origins[n] \in taken
         /\ n > 1 => origins[n - 1] < origins[n]
         /\ trigger_configs[n].type =
              (IF origins[n] <= Len(config.platform_group_provider_map)
               THEN "group" ELSE "private")
         /\ trigger_configs[n].cron_expression = SplitColons(RawInputs[origins[n]])[4]
    /\ (pc # "parse" \/ pidx = Len(RawInputs)) =>
         Cardinality(taken) = Cardinality({k \in 1..Len(RawInputs) : WellFormed(RawInputs[k])})
\* A whole batch read: a rejected group string, then an accepted friend string.
C6_Witness ==
  /\ pidx = Len(RawInputs)
  /\ Len(config.platform_group_provider_map) = 1
  /\ ~WellFormed(RawInputs[1])
  /\ Len(origins) = 1
  /\ origins[1] = 2
  /\ trigger_configs[1].type = "private"

\* C7: for an accepted raw string the first four segments are channel,
\* destination, provider and cron, and the prompt is the rest rejoined with
\* "::", so the five fields joined with "::" give back the raw string.
C7_PromptKeepsSeparators ==
  \A n \in 1..Len(trigger_configs) :
    LET c == trigger_configs[n]
        raw == RawInputs[origins[n]]
        parts == SplitColons(raw)
    IN /\ c.platform = parts[1]
       /\ c.target_id = parts[2]
       /\ c.provider = parts[3]
       /\ c.cron_expression = parts[4]
       /\ JoinColons(<<c.platform, c.target_id, c.provider, c.cron_expression,
                       c.message>>) = raw
       /\ raw = RawHelloWorld =>
            /\ c.platform = <<"p1">>
            /\ c.target_id = <<"g1">>
            /\ c.provider = <<"provA">>
            /\ c.cron_expression = EveryMinute
            /\ c.message = <<"hello", ":", ":", "world">>
\* "p1::g1::provA::* * * * *::hello::world" parsed, its prompt "hello::world".
C7_Witness ==
  \E n \in 1..Len(trigger_configs) :
    /\ RawInputs[origins[n]] = RawHelloWorld
    /\ trigger_configs[n].message = <<"hello", ":", ":", "world">>

\* C8: an attempt whose provider does not resolve calls neither the provider
\* nor the delivery channel and sends no notice of either kind.
C8_UnresolvedIsSilent ==
  (pc = "scan" /\ NoLogFault /\ HasEv("resolve_miss")) =>
     /\ ~HasEv("provider_call")
     /\ ~HasEv("send")
     /\ ~HasEv("success")
     /\ ~HasEv("error")

\* C9: after an absent response or an empty result_chain the attempt returns
\* to the scan without a delivery call and without an exception; every
\* delivery call carries a non-empty payload the provider has just returned.
\* (Without a delivery call in every case; back in the scan and advanced
\* unless the logger raised.)
C9_EmptyResultNoDelivery ==
  /\ HasEv("provider_empty") => ~HasEv("send")
  /\ (HasEv("provider_empty") /\ NoLogFault) =>
       /\ ~HasEv("send")
       /\ ~HasEv("provider_error") /\ ~HasEv("send_error") /\ ~HasEv("exec_error")
       /\ HasEv("advance")
       /\ pc = "scan"
  /\ \A n \in 1..Len(attempt) :
       attempt[n].ev = "send" =>
         /\ attempt[n].payload # <<>>
         /\ n > 1
         /\ attempt[n - 1].ev = "provider_ok"
\* The provider answered with nothing and the scan moved on.
C9_Witness ==
  /\ pc = "scan"
  /\ HasEv("provider_empty")
  /\ HasEv("advance")

\* C10: the loop is Terminated only when cancellation was requested; after an
\* exception in the loop body or a failed trigger it is sleeping or scanning.
\* (The task ends otherwise only when the logger raises in the loop's own
\* except branch, a failure of the logging itself.)
C10_OnlyCancellationTerminates ==
  /\ pc = "terminated" => cancel_requested
  /\ pc = "crashed" => 142 \in log_raised
  /\ (loop_error_seen /\ ~cancel_requested /\ pc # "crashed") =>
        pc \in {"error_sleep", "sleep"} \cup Scanning
  /\ (failed # {} /\ ~cancel_requested) => pc \in Scanning
\* A scan under way after the loop's except branch has run, with no cancellation.
C10_Witness ==
  /\ pc = "scan"
  /\ loop_error_seen
  /\ ~cancel_requested
  /\ idx > 1

\* C11: terminate() asks for cancellation only while the task is at an await
\* (a sleep, the retry sleep, the provider call or the delivery call) or has not
\* begun; from then on the task's only step is to end, where it stands, with
\* the triggers as they are: no sleep completes, no call returns to it, no
\* failure handler takes the cancellation; terminate() returns only when the
\* task has ended, and an ended task executes, delivers, notifies and advances
\* nothing.
C11_CancellationEndsLoop ==
  [][ /\ (~cancel_requested /\ cancel_requested') =>
           /\ pc \in AwaitPoints \cup {"created"}
           /\ pc' = pc
           /\ term' = "waiting"
           /\ trigger_configs' = trigger_configs
           /\ completed' = completed
           /\ scanHistory' = scanHistory
      /\ (cancel_requested /\ pc # "terminated") =>
           /\ pc' \in {pc, "terminated"}
           /\ trigger_configs' = trigger_configs
           /\ completed' = completed
           /\ pc' = pc => scanHistory' = scanHistory
           /\ pc' = "terminated" => attempt' = <<>>
      /\ pc \in {"terminated", "crashed"} =>
           /\ pc' = pc
           /\ trigger_configs' = trigger_configs
           /\ completed' = completed
           /\ scanHistory' = scanHistory
      /\ (term = "waiting" /\ term' # "waiting") => pc = "terminated" ]_vars
\* The task was cancelled while awaiting the provider, and the trigger it was
\* executing is still due and not advanced.
C11_Witness ==
  /\ pc = "terminated"
  /\ term = "returned"
  /\ cancelled_at = "await_provider"
  /\ \E i \in Triggers : /\ trigger_configs[i].next_run <= now
                         /\ trigger_configs[i].last_run = None

\* C12 as written: after construction every trigger that has not run yet has
\* last_run unset and next_run equal to the next match computed from the instant
\* construction began.
C12_NextRunFromStartInstant ==
  \A i \in Triggers :
    i \notin completed =>
      /\ trigger_configs[i].last_run = None
      /\ trigger_configs[i].next_run =
           CronNext(trigger_configs[i].cron_expression, start_time)

\* C12, amended: no catch-up at start.  A trigger that has not run yet has
\* last_run unset and next_run equal to the next match computed from the clock
\* read when its own raw string was parsed, which is at or after the instant
\* construction began; so next_run is later than that instant, and nothing is
\* executed before the first match of its expression after that instant.
C12_NoCatchUpAtStart ==
  \A i \in Triggers :
    /\ ref[i] >= start_time
    /\ trigger_configs[i].next_run > start_time
    /\ i \notin completed =>
         /\ trigger_configs[i].last_run = None
         /\ trigger_configs[i].next_run =
              CronNext(trigger_configs[i].cron_expression, ref[i])
         /\ trigger_configs[i].next_run >=
              CronNext(trigger_configs[i].cron_expression, start_time)
    /\ (pc \in Scanning /\ CountOf(executed, i) > 0) =>
         current_time >= CronNext(trigger_configs[i].cron_expression, start_time)
    /\ trigger_configs[i].last_run # None =>
         trigger_configs[i].last_run >=
           CronNext(trigger_configs[i].cron_expression, start_time)
\* A trigger parsed after the instant construction began is being executed for
\* the first time.
C12_Witness ==
  /\ pc \in Scanning
  /\ \E i \in Triggers : /\ i \notin completed
                         /\ ref[i] > start_time
                         /\ CountOf(executed, i) = 1

\* C13: for every valid expression and reference instant R the next match is
\* strictly later than R, and the next match computed from that result is
\* strictly later again; each result is a whole minute.  (Every computation in
\* the plugin builds a fresh evaluator from the expression and the reference, so
\* no result depends on earlier calls.)
C13_NextStrictlyLater ==
  LET chain == <<cron_ref>> \o cron_out IN
    \A n \in 1..Len(cron_out) :
      /\ cron_out[n] > chain[n]
      /\ cron_out[n] % TicksPerMinute = 0
\* Two successive matches were computed from a reference that lies on a whole
\* minute the expression matches.
C13_Witness ==
  /\ Len(cron_out) >= 2
  /\ cron_ref % TicksPerMinute = 0
  /\ CronMatches(SplitSpaces(cron_expr, <<>>), cron_ref \div TicksPerMinute)

\* C14: a success notice is sent only when notification_on_success is set and
\* never for an attempt whose provider call or delivery call raised.
C14_SuccessNoticeOnlyOnSuccess ==
  (HasEv("success") /\ NoLogFault) =>
    /\ config.notification_on_success
    /\ ~HasEv("provider_error")
    /\ ~HasEv("send_error")

\* C19: a scan checks the triggers one after another in list order, each once;
\* it checks the next entry only when the attempt for the entry before has
\* returned and that entry is advanced, so at most one execution started by the
\* scheduler is in flight and executions happen in list order.  (An entry
\* whose attempt a raising logger call ended is not advanced: see C1.)
C19_SequentialInOrder ==
  pc \in Scanning =>
    LET k == IF pc = "scan" THEN idx - 1 ELSE idx
        pending == {i \in Triggers : /\ CountOf(executed, i) > 0
                                     /\ i \notin faulted
                                     /\ trigger_configs[i].last_run # current_time}
    IN /\ checked = [n \in 1..k |-> n]
       /\ k <= Len(trigger_configs)
       /\ \A n \in 1..Len(executed) : executed[n] \in 1..k
       /\ \A n \in 1..(Len(executed) - 1) : executed[n] < executed[n + 1]
       /\ pending = IF pc = "scan" THEN {} ELSE {idx}
\* The second trigger's execution is in flight after the first one's attempt
\* has returned.
C19_Witness ==
  /\ pc = "await_provider"
  /\ idx = 2
  /\ executed = <<1, 2>>
  /\ trigger_configs[1].last_run = current_time

\* C18: one slow trigger does not block the scan for good: when the provider
\* or delivery call of one trigger never returns, every other trigger that is
\* due is eventually executed and advanced by a scan (unless the plugin is
\* terminated first).
C18_SlowTriggerDoesNotBlock ==
  \A j \in Slots :
    (pc = "hung" /\ j \in Triggers /\ j # idx /\ trigger_configs[j].next_run <= now)
      ~> \/ pc = "terminated"
         \/ (pc = "scan" /\ j < idx /\ CountOf(executed, j) > 0)

\* C15: the test command executes nothing for a sender who is not the
\* administrator; for the administrator it attempts every trigger once in list
\* order, reports the number of triggers as the total, and reports as successes
\* the attempts in which neither the provider call nor the delivery call raised.
C15_TestCountsSuccesses ==
  /\ tpc = "idle" => t_executed = <<>>
  /\ tpc = "t_done" =>
       LET r == replies[AdminTest] IN
         /\ t_executed = [n \in 1..Len(trigger_configs) |-> n]
         /\ r[Len(r)].kind = "result"
         /\ r[Len(r)].total = Len(trigger_configs)
         /\ r[Len(r)].success = Len(t_executed) - t_raised

\* C16: after construction only a step of the scan changes a trigger, and it
\* changes next_run and last_run (with the stored evaluator) of the entry it has
\* just executed; the commands, and _execute_trigger run by the test command,
\* leave every trigger as it is; no step adds, removes or reorders triggers or
\* changes a definitional field.
C16_OnlyScanAdvances ==
  [][ pc # "parse" =>
        /\ Len(trigger_configs') = Len(trigger_configs)
        /\ cmdVars' # cmdVars => trigger_configs' = trigger_configs
        /\ \A i \in Triggers :
             /\ trigger_configs'[i].type = trigger_configs[i].type
             /\ trigger_configs'[i].platform = trigger_configs[i].platform
             /\ trigger_configs'[i].target_id = trigger_configs[i].target_id
             /\ trigger_configs'[i].provider = trigger_configs[i].provider
             /\ trigger_configs'[i].cron_expression = trigger_configs[i].cron_expression
             /\ trigger_configs'[i].message = trigger_configs[i].message
             /\ trigger_configs'[i] # trigger_configs[i] =>
                  /\ pc \in Scanning
                  /\ i = idx
                  /\ CountOf(executed, i) > 0 \/ CountOf(executed', i) > 0 ]_vars
\* The test command has executed both triggers, one of them due for the
\* scheduler, and neither has ever been advanced.
C16_Witness ==
  /\ tpc = "t_done"
  /\ t_executed = <<1, 2>>
  /\ \A i \in Triggers : trigger_configs[i].last_run = None
  /\ \E i \in Triggers : trigger_configs[i].next_run <= now

\* C17: whenever another coroutine can run or look, every trigger that has run
\* has next_run already recomputed from its last_run, so nobody sees last_run
\* advanced beside a stale next_run; what the status command shows of an entry is
\* never later than the entry's next_run and never a value the entry had left.
C17_NoHalfAdvancedEntry ==
  /\ \A i \in Triggers :
       trigger_configs[i].last_run # None =>
         /\ trigger_configs[i].next_run > trigger_configs[i].last_run
         /\ trigger_configs[i].next_run =
              CronNext(trigger_configs[i].cron_expression, trigger_configs[i].last_run)
  /\ \A c \in Commands : \A n \in 1..Len(replies[c]) :
       replies[c][n].kind = "status" =>
         /\ Len(replies[c][n].entries) = Len(trigger_configs)
         /\ \A i \in Triggers :
              /\ replies[c][n].entries[i].next_run <= trigger_configs[i].next_run
              /\ replies[c][n].entries[i].next_run < trigger_configs[i].next_run =>
                   trigger_configs[i].last_run >= replies[c][n].entries[i].next_run
\* The status command ran while the scan was awaiting the second trigger's
\* provider and saw the first trigger advanced.
C17_Witness ==
  /\ pc = "await_provider"
  /\ idx = 2
  /\ trigger_configs[1].last_run = current_time
  /\ \E c \in Commands :
       /\ Len(replies[c]) = 1
       /\ replies[c][1].kind = "status"
       /\ replies[c][1].entries[1].next_run = trigger_configs[1].next_run
       /\ replies[c][1].entries[1].next_run > current_time

\* The deliveries recorded in an attempt: at most one, addressed to the
\* trigger's channel, category tag and destination, and carrying the payload the
\* provider has just returned for that trigger's prompt.
DeliveriesRight(lg) ==
  /\ Cardinality({n \in 1..Len(lg) : lg[n].ev = "send"}) <= 1
  /\ \A n \in 1..Len(lg) :
       lg[n].ev = "send" =>
         LET c == trigger_configs[lg[n].idx] IN
           /\ lg[n].addr =
                c.platform
                  \o <<":", (CASE c.type = "group" -> "group_message"
                               [] c.type = "private" -> "private_message"), ":">>
                  \o c.target_id
           /\ n > 1
           /\ lg[n - 1].ev = "provider_ok"
           /\ lg[n - 1].idx = lg[n].idx
           /\ lg[n].payload = lg[n - 1].payload
           /\ lg[n].payload = <<"re">> \o c.message
\* C20: every delivery, by the scheduler or by the test command, goes to
\* '<channel>:group_message:<destination>' for a group trigger and to
\* '<channel>:private_message:<destination>' for a private one, carries exactly
\* the provider's result for that trigger's prompt, and is the only delivery of
\* its attempt.
C20_DeliveryAddressAndPayload ==
  /\ DeliveriesRight(attempt)
  /\ DeliveriesRight(t_attempt)
\* The scheduler and the test command are each delivering, one for the group
\* trigger and one for the private trigger.
C20_Witness ==
  /\ pc = "await_send"
  /\ tpc = "t_await_send"
  /\ trigger_configs[idx].type # trigger_configs[tidx].type

====
